---- MODULE Spec2Model ----
(***************************************************************************)
(* Model of torch/_inductor/codegen/cutedsl/cutedsl_kernel.py:             *)
(* CuteDSLTemplateKernel, its subgraph bodies (regions), its render hooks  *)
(* and the template-facing operations store_output and def_kernel.         *)
(*                                                                         *)
(* Python object identity matters here: self.body is a reference to a      *)
(* mutable IndentedBuffer.  Buffers therefore live in a heap (buffer id   *)
(* to sequence of lines) and every "body" field holds a buffer id.         *)
(* Optional values are None == <<>> or Some(x) == <<x>>.  Text is a        *)
(* sequence of tokens, so that formatting, joining and stripping are       *)
(* computed and not assumed.                                                *)
(***************************************************************************)
EXTENDS Integers, Sequences, FiniteSets, TLC

VARIABLES
    self,       \* the CuteDSLTemplateKernel instance (fields as in __init__) and the buffer heap
    stack,      \* open set_subgraph_body scopes of the caller, innermost last
    fault,      \* the exception now propagating, "none" when control runs normally
    op,         \* the last operation performed and its result (history)
    mutations   \* how many times the caller's own code has changed a template attribute

vars == <<self, stack, fault, op, mutations>>

-----------------------------------------------------------------------------
(* Bounds *)

MaxDepth == 1          \* scopes the caller holds open (store_output and def_kernel nest one more)
MaxMutations == 1      \* assignments and writelines the caller's own code performs

-----------------------------------------------------------------------------
(* Values *)

None == <<>>
NewLine == "\n"
Some(x) == <<x>>

STORE_OUTPUT == "<STORE_OUTPUT>"
DEF_KERNEL == "<DEF_KERNEL>"
UserRegionNames == <<"A">>
RegionNames == {STORE_OUTPUT, DEF_KERNEL} \cup {UserRegionNames[i] : i \in 1..Len(UserRegionNames)}

kernel_name == "kern"
\* the constructor's (input_nodes, output_node): buffers are known by their names
Constructions == {[input_nodes |-> <<"a", "b">>, output_node |-> Some("c")]}

MaskValues == {None, Some("m")}
ValValues == {"v"}
\* what a caller passes as indices: None, a list, or a non-iterable truthy object
IndicesValues == {[kind |-> "None", items |-> <<>>],
                  [kind |-> "list", items |-> <<"i", "j">>],
                  [kind |-> "int", items |-> <<>>]}
ArgNameLists == {<<>>, <<"x", "y">>}
\* constructions and signatures for the argument table: a buffer listed twice,
\* no output buffer, a repeated name, fewer and more names than inputs
ArgConstructions ==
    {[input_nodes |-> <<"a", "b">>, output_node |-> Some("c")],
     [input_nodes |-> <<"a", "a">>, output_node |-> Some("c")],
     [input_nodes |-> <<"a", "b">>, output_node |-> None]}
WideArgNameLists == {<<>>, <<"x">>, <<"x", "y">>, <<"x", "x">>, <<"y", "x", "z">>}
CallTargets == {"k"}
\* templates: the literal text and the calls their expansion makes, in order
Literal(text) == [kind |-> "text", text |-> text]
CallDefKernel(argnames) == [kind |-> "def_kernel", argnames |-> argnames]
CallStoreOutput(indices, val, mask) ==
    [kind |-> "store_output", indices |-> indices, val |-> val, mask |-> mask]
Templates ==
    {<<Literal(<<"import cutlass", NewLine>>)>>,
     <<CallDefKernel(<<"x", "y">>), Literal(<<NewLine, "    ">>),
       CallStoreOutput([kind |-> "None", items |-> <<>>], "v", None)>>,
     <<Literal(<<"@cute.jit", NewLine>>),
       CallStoreOutput([kind |-> "int", items |-> <<>>], "v", Some("m"))>>}
UserLines == {<<"pass">>}
UserMasks == {Some("u")}

EmptyMap == [x \in {} |-> ""]
Put(f, key, v) == [x \in (DOMAIN f) \cup {key} |-> IF x = key THEN v ELSE f[x]]

-----------------------------------------------------------------------------
(* IndentedBuffer and text *)

IsSpace(tok) == tok \in {NewLine, " ", ""}

MainBuffer == 0
\* Object identities are arbitrary: a new buffer takes the id reserved for its
\* region name when that id is free, and an unused id otherwise.
Slot(body_name) ==
    IF body_name = STORE_OUTPUT THEN 1
    ELSE IF body_name = DEF_KERNEL THEN 2
    ELSE 2 + CHOOSE i \in 1..Len(UserRegionNames) : UserRegionNames[i] = body_name
MaxId(ids) == CHOOSE m \in ids : \A i \in ids : i <= m
FreshId(h, body_name) ==
    IF Slot(body_name) \notin DOMAIN h THEN Slot(body_name)
    ELSE 1 + MaxId((DOMAIN h) \cup {2 + Len(UserRegionNames)})

\* IndentedBuffer.writeline on buffer b of the heap
WriteLine(h, b, line) == [h EXCEPT ![b] = Append(@, line)]

RECURSIVE GetValueLines(_)
GetValueLines(lines) ==
    IF lines = <<>> THEN <<>>
    ELSE Head(lines) \o <<NewLine>> \o GetValueLines(Tail(lines))

\* IndentedBuffer.getvalue: every line followed by a newline
GetValue(h, b) == GetValueLines(h[b])

RECURSIVE LStrip(_)
LStrip(text) ==
    IF text # <<>> /\ IsSpace(Head(text)) THEN LStrip(Tail(text)) ELSE text

RECURSIVE RStrip(_)
RStrip(text) ==
    IF text # <<>> /\ IsSpace(text[Len(text)])
    THEN RStrip(SubSeq(text, 1, Len(text) - 1))
    ELSE text

\* str.strip
Strip(text) == RStrip(LStrip(text))

RECURSIVE Join(_, _)
\* sep.join(items)
Join(sep, items) ==
    IF items = <<>> THEN <<>>
    ELSE IF Len(items) = 1 THEN <<items[1]>>
    ELSE <<items[1], sep>> \o Join(sep, Tail(items))

\* does text contain the tokens of line, contiguously
Contains(text, line) ==
    \E i \in 1..(Len(text) - Len(line) + 1) : SubSeq(text, i, i + Len(line) - 1) = line

-----------------------------------------------------------------------------
(* CuteDSLSubgraphInfo and the scopes *)

\* dataclasses.fields(CuteDSLSubgraphInfo)
SubgraphFields == {"body", "template_mask", "template_out"}

\* {key.name: getattr(self, key.name) for key in dataclasses.fields(CuteDSLSubgraphInfo)}
CurrentFields(k) == [f \in SubgraphFields |-> k[f]]

\* for key, value in ...: setattr(self, key, value)
SetFields(k, values) ==
    [k EXCEPT !.body = values.body,
              !.template_mask = values.template_mask,
              !.template_out = values.template_out]

\* mutant: a new region takes the buffer that is active when it is created
NewSubgraphSharesBody(k, body_name) ==
    [k EXCEPT !.subgraph_bodies = Put(@, body_name,
                  [body |-> k.body, template_mask |-> None, template_out |-> None])]

\* self.subgraph_bodies[body_name] = CuteDSLSubgraphInfo(body=IndentedBuffer(), None, None)
NewSubgraph(k, body_name) ==
    [k EXCEPT !.heap = Put(@, FreshId(k.heap, body_name), <<>>),
              !.subgraph_bodies = Put(@, body_name,
                  [body |-> FreshId(k.heap, body_name),
                   template_mask |-> None, template_out |-> None])]

\* mutant: the region is created anew on every entry
SubgraphEnterRecreates(k, body_name) ==
    LET old_state == CurrentFields(k)
        k1 == NewSubgraph(k, body_name)
    IN  [k |-> SetFields(k1, k1.subgraph_bodies[body_name]), old_state |-> old_state]

\* set_subgraph_body up to its yield: the kernel after entry and the saved old_state
SubgraphEnter(k, body_name) ==
    LET old_state == CurrentFields(k)
        k1 == IF body_name \notin DOMAIN k.subgraph_bodies
              THEN NewSubgraph(k, body_name) ELSE k
    IN  [k |-> SetFields(k1, k1.subgraph_bodies[body_name]), old_state |-> old_state]

\* mutant: template_mask is saved but not restored
SubgraphExitKeepsMask(k, body_name, old_state) ==
    [k EXCEPT !.subgraph_bodies = Put(@, body_name, CurrentFields(k)),
              !.body = old_state.body,
              !.template_out = old_state.template_out]

\* the finally block of set_subgraph_body
SubgraphExit(k, body_name, old_state) ==
    SetFields([k EXCEPT !.subgraph_bodies = Put(@, body_name, CurrentFields(k))], old_state)

\* mutant: the save and restore follow the yield without a finally
SubgraphLeaveNoFinally(k, body_name, old_state, raised) ==
    IF raised THEN k ELSE SubgraphExit(k, body_name, old_state)

\* try: yield / finally: ... of set_subgraph_body; raised tells whether the body
\* of the scope ended by raising.  The finally block runs on both paths.
SubgraphLeave(k, body_name, old_state, raised) == SubgraphExit(k, body_name, old_state)

\* mutant: the assertion is missing
CanCreateAlways(k, body_name) == TRUE

\* the assertion of create_subgraph_body
CanCreate(k, body_name) == body_name \notin DOMAIN k.subgraph_bodies

\* create_subgraph_body up to its yield, when the assertion passes
SubgraphCreate(k, body_name) == SubgraphEnter(NewSubgraph(k, body_name), body_name)

\* the four template attributes of __init__, the active region state
ActiveFields(k) ==
    [body |-> k.body, template_mask |-> k.template_mask,
     template_out |-> k.template_out, template_indices |-> k.template_indices]

\* an open scope: the generator's body_name and old_state, and (history) the
\* active fields of the kernel just before the scope was entered
Frame(body_name, old_state, k) ==
    [body_name |-> body_name, old_state |-> old_state, before |-> ActiveFields(k)]

-----------------------------------------------------------------------------
(* Initial state: CuteDSLTemplateKernel.__init__ *)

RECURSIVE NamedInputs(_, _)
NamedInputs(nodes, i) ==
    IF i = 0 THEN EmptyMap ELSE Put(NamedInputs(nodes, i - 1), nodes[i], nodes[i])

\* op: the operation's name, the region name or token it was given, a hook's result
NoOp == [name |-> "init", arg |-> "", text |-> <<>>]
Did(name, arg) == [name |-> name, arg |-> arg, text |-> <<>>]

\* the instance CuteDSLTemplateKernel(kernel_name, c.input_nodes, c.output_node)
Construct(c) ==
    [input_nodes |-> c.input_nodes,
     output_node |-> c.output_node,
     heap |-> [b \in {MainBuffer} |-> <<>>],
     subgraph_bodies |-> EmptyMap,
     body |-> MainBuffer,
     template_mask |-> None,
     template_out |-> None,
     template_indices |-> None,
     render_hooks |-> EmptyMap,
     named_input_nodes |-> NamedInputs(c.input_nodes, Len(c.input_nodes)),
     input_buffers |-> EmptyMap,
     output_buffers |-> EmptyMap]

Init ==
    /\ \E c \in Constructions : self = Construct(c)
    /\ stack = <<>>
    /\ fault = "none"
    /\ op = NoOp
    /\ mutations = 0

-----------------------------------------------------------------------------
(* store_output, def_kernel and their hooks, as functions of the kernel *)

Truthy(opt) == opt # None /\ opt[1] # ""

\* `indices` is truthy: a non-empty list or a non-zero number
IndicesTruthy(indices) ==
    \/ indices.kind = "list" /\ indices.items # <<>>
    \/ indices.kind = "int"

\* the body of `with self.create_subgraph_body("<STORE_OUTPUT>")`, lines 266-274.
\* list(indices) raises TypeError for a truthy non-iterable, after mask and out were set.
StoreOutputBody(k, indices, val, mask) ==
    LET k1 == [k EXCEPT !.template_mask = mask, !.template_out = Some(val)]
    IN  IF IndicesTruthy(indices) /\ indices.kind # "list"
        THEN [k |-> k1, fault |-> "TypeError"]
        ELSE LET k2 == [k1 EXCEPT !.template_indices =
                            Some(IF IndicesTruthy(indices) THEN indices.items ELSE <<>>)]
                 h1 == WriteLine(k2.heap, k2.body, <<"# Store output: ", val>>)
                 h2 == IF Truthy(mask)
                       THEN WriteLine(h1, k2.body, <<"# Mask: ", mask[1]>>)
                       ELSE h1
             IN  [k |-> [k2 EXCEPT !.heap = h2], fault |-> "none"]

\* assert token not in self.render_hooks; self.render_hooks[token] = hook
RegisterHook(k, token) ==
    IF token \in DOMAIN k.render_hooks
    THEN [k |-> k, fault |-> "DuplicateHookError"]
    ELSE [k |-> [k EXCEPT !.render_hooks = Put(@, token, "hook")], fault |-> "none"]

\* a `with self.create_subgraph_body(token): body` statement followed by the
\* registration of the hook; body is the result of running the body inside the scope
ScopedThenRegister(k, token, old_state, body) ==
    LET out == SubgraphLeave(body.k, token, old_state, body.fault # "none")
    IN  IF body.fault # "none"
        THEN [k |-> out, fault |-> body.fault]
        ELSE RegisterHook(out, token)

\* mutant: store_output opens its region with set_subgraph_body, reusing a stored one
StoreOutputReuses(k, indices, val, mask) ==
    LET r == SubgraphEnter(k, STORE_OUTPUT)
    IN  ScopedThenRegister(r.k, STORE_OUTPUT, r.old_state,
                           StoreOutputBody(r.k, indices, val, mask))

\* store_output(indices, val, mask): the kernel after the call and the fault it raised
StoreOutput(k, indices, val, mask) ==
    IF ~CanCreate(k, STORE_OUTPUT)
    THEN [k |-> k, fault |-> "DuplicateRegionError"]
    ELSE LET r == SubgraphCreate(k, STORE_OUTPUT)
         IN  ScopedThenRegister(r.k, STORE_OUTPUT, r.old_state,
                                StoreOutputBody(r.k, indices, val, mask))

Min(a, b) == IF a < b THEN a ELSE b

RECURSIVE BindArgsKeepsFirst(_, _, _)
\* mutant: a buffer that already has a symbol keeps it
BindArgsKeepsFirst(k, argnames, n) ==
    IF n = 0 THEN k
    ELSE LET k1 == BindArgsKeepsFirst(k, argnames, n - 1)
         IN  IF k.input_nodes[n] \in DOMAIN k1.input_buffers THEN k1
             ELSE [k1 EXCEPT !.named_input_nodes = Put(@, argnames[n], k.input_nodes[n]),
                             !.input_buffers = Put(@, k.input_nodes[n], argnames[n])]

RECURSIVE BindArgs(_, _, _)
\* for i, (name, input_node) in enumerate(zip(argnames, self.input_nodes)), first n pairs
BindArgs(k, argnames, n) ==
    IF n = 0 THEN k
    ELSE LET k1 == BindArgs(k, argnames, n - 1)
         IN  [k1 EXCEPT !.named_input_nodes = Put(@, argnames[n], k.input_nodes[n]),
                        !.input_buffers = Put(@, k.input_nodes[n], argnames[n])]

\* if self.output_node: self.args.output_buffers[self.output_node.get_name()] = "output"
BindOutput(k) ==
    IF k.output_node # None
    THEN [k EXCEPT !.output_buffers = Put(@, k.output_node[1], "output")]
    ELSE k

\* the lines def_kernel writes
DefKernelLines(argnames) ==
    IF argnames # <<>>
    THEN LET args_str == Join(", ", argnames)
         IN  << <<"# CuteDSL kernel function: ", kernel_name>>,
                <<"# Arguments: ">> \o args_str,
                <<"def ", kernel_name, "(">> \o args_str \o <<"):">> >>
    ELSE << <<"# CuteDSL kernel function: ", kernel_name>>,
            <<"def ", kernel_name, "():">> >>

RECURSIVE WriteLines(_, _, _)
WriteLines(h, b, lines) ==
    IF lines = <<>> THEN h
    ELSE WriteLines(WriteLine(h, b, Head(lines)), b, Tail(lines))

\* the body of `with self.create_subgraph_body("<DEF_KERNEL>")`, lines 305-313
DefKernelBody(k, argnames) ==
    [k |-> [k EXCEPT !.heap = WriteLines(@, k.body, DefKernelLines(argnames))],
     fault |-> "none"]

\* def_kernel(*argnames)
DefKernel(k, argnames) ==
    LET k1 == BindOutput(BindArgs(k, argnames, Min(Len(argnames), Len(k.input_nodes))))
    IN  IF ~CanCreate(k1, DEF_KERNEL)
        THEN [k |-> k1, fault |-> "DuplicateRegionError"]
        ELSE LET r == SubgraphCreate(k1, DEF_KERNEL)
             IN  ScopedThenRegister(r.k, DEF_KERNEL, r.old_state,
                                    DefKernelBody(r.k, argnames))

\* the closure `hook` of store_output and of def_kernel, called on kernel k:
\* self.body.getvalue().strip(), self.body read when the hook runs
Hook(k, token) == Strip(GetValue(k.heap, k.body))

-----------------------------------------------------------------------------
(* render *)

RECURSIVE TemplateRender(_, _)
\* template.render(..., store_output=self.store_output, def_kernel=self.def_kernel):
\* the expansion calls the callables in order and puts what each returns in place
\* of the call; an exception raised by a call ends the expansion
TemplateRender(k, template) ==
    IF template = <<>> THEN [k |-> k, fault |-> "none", text |-> <<>>]
    ELSE LET item == Head(template)
             r == IF item.kind = "def_kernel" THEN DefKernel(k, item.argnames)
                  ELSE IF item.kind = "store_output"
                       THEN StoreOutput(k, item.indices, item.val, item.mask)
                  ELSE [k |-> k, fault |-> "none"]
             out == IF item.kind = "def_kernel" THEN <<DEF_KERNEL>>
                    ELSE IF item.kind = "store_output" THEN <<STORE_OUTPUT>>
                    ELSE item.text
         IN  IF r.fault # "none" THEN [k |-> r.k, fault |-> r.fault, text |-> <<>>]
             ELSE LET rest == TemplateRender(r.k, Tail(template))
                  IN  [k |-> rest.k, fault |-> rest.fault,
                       text |-> IF rest.fault = "none" THEN out \o rest.text ELSE <<>>]

RECURSIVE Resolve(_, _)
\* pass 2 over a text: every token that has a hook is replaced by the hook's result
Resolve(k, text) ==
    IF text = <<>> THEN <<>>
    ELSE (IF Head(text) \in DOMAIN k.render_hooks THEN Hook(k, Head(text)) ELSE <<Head(text)>>)
         \o Resolve(k, Tail(text))

\* mutant: render resolves the placeholders before it returns
RenderResolves(k, template) ==
    LET rendered_code == TemplateRender(k, template)
    IN  [k |-> rendered_code.k, fault |-> rendered_code.fault,
         text |-> Resolve(rendered_code.k, rendered_code.text)]

\* render(template): the kernel after the call, the fault raised, the text returned
Render(k, template) ==
    LET rendered_code == TemplateRender(k, template)
    IN  [k |-> rendered_code.k, fault |-> rendered_code.fault, text |-> rendered_code.text]

-----------------------------------------------------------------------------
(* call_kernel *)

\* `self.args` is truthy: the argument table has been populated
ArgsPopulated(k) == k.input_buffers # EmptyMap \/ k.output_buffers # EmptyMap

RECURSIVE BoundInputs(_, _)
\* the input buffers that have a symbol, each once, in the order of input_nodes
BoundInputs(k, n) ==
    IF n = 0 THEN <<>>
    ELSE LET rest == BoundInputs(k, n - 1)
             b == k.input_nodes[n]
         IN  IF b \in DOMAIN k.input_buffers /\ ~(\E i \in 1..Len(rest) : rest[i] = b)
             THEN Append(rest, b) ELSE rest

\* self.args.python_argdefs(): call arguments and their declared types from the table
PythonArgdefs(k) ==
    LET call_args == BoundInputs(k, Len(k.input_nodes)) \o
                     (IF k.output_node # None /\ k.output_node[1] \in DOMAIN k.output_buffers
                      THEN <<k.output_node[1]>> ELSE <<>>)
    IN  [via |-> "python_argdefs",
         call_args |-> call_args,
         arg_types |-> [i \in 1..Len(call_args) |-> <<"dtype", call_args[i]>>]]

\* mutant: the fallback leaves out the output buffer
FallbackArgsInputsOnly(k) ==
    [via |-> "fallback",
     call_args |-> k.input_nodes,
     arg_types |-> [i \in 1..Len(k.input_nodes) |-> <<"torch.Tensor">>]]

\* the else branch of call_kernel: one argument per input node, then the output node
FallbackArgs(k) ==
    LET call_args == k.input_nodes \o (IF k.output_node # None THEN <<k.output_node[1]>> ELSE <<>>)
    IN  [via |-> "fallback",
         call_args |-> call_args,
         arg_types |-> [i \in 1..Len(call_args) |-> <<"torch.Tensor">>]]

\* the arguments call_kernel passes to wrapper.generate_kernel_call
CallKernel(k, name) ==
    LET a == IF ArgsPopulated(k) THEN PythonArgdefs(k) ELSE FallbackArgs(k)
    IN  [name |-> name, call_args |-> a.call_args, triton |-> FALSE,
         arg_types |-> a.arg_types, via |-> a.via]

-----------------------------------------------------------------------------
(* Actions *)

Running == fault = "none"
Top == stack[Len(stack)]
Pop == SubSeq(stack, 1, Len(stack) - 1)

\* `with self.set_subgraph_body(body_name):` reaches its body
set_subgraph_body(body_name) ==
    /\ UNCHANGED mutations
    /\ Running
    /\ Len(stack) < MaxDepth
    /\ LET r == SubgraphEnter(self, body_name)
       IN  /\ self' = r.k
           /\ stack' = Append(stack, Frame(body_name, r.old_state, self))
    /\ op' = Did("set_subgraph_body", body_name)
    /\ UNCHANGED fault

\* `with self.create_subgraph_body(body_name):` reaches its body or fails its assertion
create_subgraph_body(body_name) ==
    /\ UNCHANGED mutations
    /\ Running
    /\ Len(stack) < MaxDepth
    /\ IF CanCreate(self, body_name)
       THEN LET r == SubgraphCreate(self, body_name)
            IN  /\ self' = r.k
                /\ stack' = Append(stack, Frame(body_name, r.old_state, self))
                /\ UNCHANGED fault
       ELSE /\ fault' = "DuplicateRegionError"
            /\ UNCHANGED <<self, stack>>
    /\ op' = Did("create_subgraph_body", body_name)

\* the body of the innermost scope ends normally
exit_scope ==
    /\ UNCHANGED mutations
    /\ Running
    /\ stack # <<>>
    /\ self' = SubgraphLeave(self, Top.body_name, Top.old_state, FALSE)
    /\ stack' = Pop
    /\ op' = Did("exit", Top.body_name)
    /\ UNCHANGED fault

\* code running inside a scope raises
raise ==
    /\ UNCHANGED mutations
    /\ Running
    /\ stack # <<>>
    /\ fault' = "Fault"
    /\ op' = Did("raise", "")
    /\ UNCHANGED <<self, stack>>

\* the propagating exception leaves the innermost scope: its finally block runs
unwind ==
    /\ UNCHANGED mutations
    /\ ~Running
    /\ stack # <<>>
    /\ self' = SubgraphLeave(self, Top.body_name, Top.old_state, TRUE)
    /\ stack' = Pop
    /\ op' = Did("unwind", Top.body_name)
    /\ UNCHANGED fault

\* the exception has left every scope; the caller catches it and goes on using the kernel
recover ==
    /\ UNCHANGED mutations
    /\ ~Running
    /\ stack = <<>>
    /\ fault' = "none"
    /\ op' = Did("recover", "")
    /\ UNCHANGED <<self, stack>>

\* `with self.set_subgraph_body(body_name): pass`: a scope entered and left at once
with_pass(body_name) ==
    /\ UNCHANGED mutations
    /\ Running
    /\ LET r == SubgraphEnter(self, body_name)
       IN  self' = SubgraphLeave(r.k, body_name, r.old_state, FALSE)
    /\ op' = Did("with_pass", body_name)
    /\ UNCHANGED <<stack, fault>>

\* self.body.writeline(line) by the code of a scope or of the template
writeline(line) ==
    /\ Running
    /\ mutations < MaxMutations
    /\ mutations' = mutations + 1
    /\ self' = [self EXCEPT !.heap = WriteLine(@, self.body, line)]
    /\ op' = Did("writeline", "")
    /\ UNCHANGED <<stack, fault>>

\* self.template_mask = mask
set_template_mask(mask) ==
    /\ Running
    /\ mutations < MaxMutations
    /\ mutations' = mutations + 1
    /\ self' = [self EXCEPT !.template_mask = mask]
    /\ op' = Did("template_mask", "")
    /\ UNCHANGED <<stack, fault>>

store_output(indices, val, mask) ==
    /\ UNCHANGED mutations
    /\ Running
    /\ LET r == StoreOutput(self, indices, val, mask)
       IN  /\ self' = r.k
           /\ fault' = r.fault
    /\ op' = Did("store_output", "")
    /\ UNCHANGED stack

def_kernel(argnames) ==
    /\ UNCHANGED mutations
    /\ Running
    /\ LET r == DefKernel(self, argnames)
       IN  /\ self' = r.k
           /\ fault' = r.fault
    /\ op' = Did("def_kernel", "")
    /\ UNCHANGED stack

\* pass 2: the hook registered for token is called
invoke_hook(token) ==
    /\ UNCHANGED mutations
    /\ Running
    /\ token \in DOMAIN self.render_hooks
    /\ op' = [name |-> "hook", arg |-> token, text |-> Hook(self, token)]
    /\ UNCHANGED <<self, stack, fault>>

\* render(template), pass 1
render(template) ==
    /\ UNCHANGED mutations
    /\ Running
    /\ LET r == Render(self, template)
       IN  /\ self' = r.k
           /\ fault' = r.fault
           /\ op' = [name |-> "render", arg |-> "", text |-> r.text]
    /\ UNCHANGED stack

Next ==
    \/ \E body_name \in RegionNames : set_subgraph_body(body_name)
    \/ \E body_name \in RegionNames : create_subgraph_body(body_name)
    \/ \E body_name \in RegionNames : with_pass(body_name)
    \/ exit_scope
    \/ raise
    \/ unwind
    \/ recover
    \/ \E line \in UserLines : writeline(line)
    \/ \E mask \in UserMasks : set_template_mask(mask)
    \/ \E indices \in IndicesValues, val \in ValValues, mask \in MaskValues :
           store_output(indices, val, mask)
    \/ \E argnames \in ArgNameLists : def_kernel(argnames)
    \/ \E token \in {STORE_OUTPUT, DEF_KERNEL} : invoke_hook(token)
    \/ \E template \in Templates : render(template)

Spec == Init /\ [][Next]_vars

\* call_kernel(name): the call handed to the wrapper is kept in op
call_kernel(name) ==
    /\ Running
    /\ op' = [name |-> "call_kernel", arg |-> name, text |-> <<>>, call |-> CallKernel(self, name)]
    /\ UNCHANGED <<self, stack, fault, mutations>>

InitArgs ==
    /\ \E c \in ArgConstructions : self = Construct(c)
    /\ stack = <<>>
    /\ fault = "none"
    /\ op = NoOp
    /\ mutations = 0

NextArgs ==
    \/ \E argnames \in WideArgNameLists : def_kernel(argnames)
    \/ \E name \in CallTargets : call_kernel(name)
    \/ \E token \in {DEF_KERNEL} : invoke_hook(token)
    \/ recover

\* the kernel as its argument table sees it: any construction, any signature
SpecArgs == InitArgs /\ [][NextArgs]_vars

\* `with self.set_subgraph_body(body_name):` written inside the body of a scope
\* the caller already holds open: one level deeper than Next goes
nested_set_subgraph_body(body_name) ==
    /\ UNCHANGED mutations
    /\ Running
    /\ stack # <<>>
    /\ Len(stack) < MaxDepth + 1
    /\ LET r == SubgraphEnter(self, body_name)
       IN  /\ self' = r.k
           /\ stack' = Append(stack, Frame(body_name, r.old_state, self))
    /\ op' = Did("set_subgraph_body", body_name)
    /\ UNCHANGED fault

NextNested ==
    \/ Next
    \/ \E body_name \in RegionNames : nested_set_subgraph_body(body_name)

\* the kernel used by code that nests one region scope inside another
SpecNested == Init /\ [][NextNested]_vars

-----------------------------------------------------------------------------
(* Properties *)

Regions(k) == DOMAIN k.subgraph_bodies
Hooks(k) == DOMAIN k.render_hooks
RegionText(k, body_name) == Strip(GetValue(k.heap, k.subgraph_bodies[body_name].body))
IsOpenIn(frames, body_name) == \E i \in 1..Len(frames) : frames[i].body_name = body_name
IsOpen(body_name) == IsOpenIn(stack, body_name)
\* the three attributes set_subgraph_body swaps, as they were before a scope was entered
SwappedBefore(frame) == [f \in SubgraphFields |-> frame.before[f]]

\* C1 (stack restore law): when the outermost scope is left, normally or by an
\* exception, and when store_output or def_kernel is called with no scope open,
\* the four active fields (body, template_mask, template_out, template_indices)
\* are what they were just before that scope was entered.
C1_StackRestoreLaw ==
    [][/\ (op'.name \in {"exit", "unwind"} /\ Len(stack) = 1)
            => ActiveFields(self') = stack[1].before
       /\ (op'.name \in {"store_output", "def_kernel", "with_pass"} /\ stack = <<>>)
            => ActiveFields(self') = ActiveFields(self)]_vars

\* C2 (round trip): entering any region, present or absent, and leaving it at once
\* changes no active field, not the contents of the active buffer, and no stored
\* state or buffer of another region.
C2_RoundTripIdentity ==
    [][\A n \in RegionNames :
         (op'.name = "with_pass" /\ op'.arg = n) =>
            /\ ActiveFields(self') = ActiveFields(self)
            /\ self'.heap[self'.body] = self.heap[self.body]
            /\ \A r \in Regions(self) \ {n} :
                  /\ r \in Regions(self')
                  /\ self'.subgraph_bodies[r] = self.subgraph_bodies[r]
                  /\ self'.heap[self'.subgraph_bodies[r].body]
                        = self.heap[self.subgraph_bodies[r].body]]_vars

\* C2 witness: a round trip was made inside an open scope whose mask is set,
\* with another region present in the store.
C2_Witness ==
    /\ op.name = "with_pass"
    /\ stack # <<>>
    /\ self.template_mask # None
    /\ Regions(self) \ {op.arg} # {}

C4_DefKernelHookText ==
    (op.name = "hook" /\ op.arg = DEF_KERNEL /\ stack = <<>>) =>
        /\ op.text = RegionText(self, DEF_KERNEL)
        /\ \E argnames \in ArgNameLists :
              Contains(op.text, DefKernelLines(argnames)[Len(DefKernelLines(argnames))])

\* C5: with no scope open, the hook of <STORE_OUTPUT> returns the trimmed contents
\* of the <STORE_OUTPUT> region's buffer; the text names the value of the call
\* and, apart, its mask when one was given, and names no mask when the mask was
\* None.  (The value and the mask of the call are those stored with the region.)
C5_StoreOutputHookText ==
    (op.name = "hook" /\ op.arg = STORE_OUTPUT /\ stack = <<>>) =>
        LET sg == self.subgraph_bodies[STORE_OUTPUT]
        IN  /\ op.text = RegionText(self, STORE_OUTPUT)
            /\ Contains(op.text, <<"# Store output: ", sg.template_out[1]>>)
            /\ (sg.template_mask \in MaskValues /\ Truthy(sg.template_mask))
                  => Contains(op.text, <<"# Mask: ", sg.template_mask[1]>>)
            /\ sg.template_mask = None
                  => \A i \in 1..Len(op.text) : op.text[i] # "# Mask: "

\* C6: a def_kernel call made when the <DEF_KERNEL> hook is registered, and a
\* store_output call made when the <STORE_OUTPUT> hook is registered, raise the
\* duplicate-hook fault.
C6_SecondCallDuplicateHook ==
    [][/\ (op'.name = "def_kernel" /\ DEF_KERNEL \in Hooks(self))
            => fault' = "DuplicateHookError"
       /\ (op'.name = "store_output" /\ STORE_OUTPUT \in Hooks(self))
            => fault' = "DuplicateHookError"]_vars

\* C7: def_kernel called when the <DEF_KERNEL> region exists and has no hook
\* succeeds, writes its skeleton into that region's buffer and registers its hook.
C7_DefKernelReusesRegion ==
    [][\A argnames \in ArgNameLists :
         (def_kernel(argnames) /\ DEF_KERNEL \in Regions(self)
            /\ DEF_KERNEL \notin Hooks(self) /\ ~IsOpen(DEF_KERNEL)) =>
            /\ fault' = "none"
            /\ DEF_KERNEL \in Hooks(self')
            /\ self'.subgraph_bodies[DEF_KERNEL].body = self.subgraph_bodies[DEF_KERNEL].body
            /\ Contains(RegionText(self', DEF_KERNEL),
                        DefKernelLines(argnames)[Len(DefKernelLines(argnames))])]_vars

\* C8: after a store_output that returned, the stored state of <STORE_OUTPUT>
\* holds the mask, the value and the list of indices of the call, and entering
\* the region makes those three the active ones.
C8_StoreOutputRecordsAux ==
    [][\A indices \in IndicesValues, val \in ValValues, mask \in MaskValues :
         (store_output(indices, val, mask) /\ fault' = "none") =>
            LET sg == self'.subgraph_bodies[STORE_OUTPUT]
                given == Some(IF IndicesTruthy(indices) THEN indices.items ELSE <<>>)
                again == SubgraphEnter(self', STORE_OUTPUT).k
            IN  /\ sg.template_mask = mask
                /\ sg.template_out = Some(val)
                /\ "template_indices" \in DOMAIN sg
                /\ sg.template_indices = given
                /\ again.template_mask = mask
                /\ again.template_out = Some(val)
                /\ again.template_indices = given]_vars

\* C9: create_subgraph_body on a name in the store raises and changes nothing,
\* without opening a scope; so do the calls store_output and def_kernel make to it
\* (regions, buffers and active fields unchanged).  On an absent name it stores an
\* empty state with a new empty buffer and enters it.
C9_CreateExclusive ==
    [][/\ \A n \in RegionNames :
            (op'.name = "create_subgraph_body" /\ op'.arg = n) =>
               IF n \in Regions(self)
               THEN /\ fault' = "DuplicateRegionError"
                    /\ self' = self
                    /\ stack' = stack
               ELSE /\ fault' = "none"
                    /\ Len(stack') = Len(stack) + 1
                    /\ stack'[Len(stack')].body_name = n
                    /\ Regions(self') = Regions(self) \cup {n}
                    /\ self'.subgraph_bodies[n].body \notin DOMAIN self.heap
                    /\ self'.heap[self'.subgraph_bodies[n].body] = <<>>
                    /\ self'.subgraph_bodies[n].template_mask = None
                    /\ self'.subgraph_bodies[n].template_out = None
                    /\ CurrentFields(self') = self'.subgraph_bodies[n]
                    /\ \A r \in Regions(self) :
                          self'.subgraph_bodies[r] = self.subgraph_bodies[r]
       /\ (op'.name = "store_output" /\ STORE_OUTPUT \in Regions(self)) =>
            /\ fault' = "DuplicateRegionError"
            /\ self' = self
       /\ (op'.name = "def_kernel" /\ DEF_KERNEL \in Regions(self)) =>
            /\ fault' = "DuplicateRegionError"
            /\ self'.subgraph_bodies = self.subgraph_bodies
            /\ self'.heap = self.heap
            /\ ActiveFields(self') = ActiveFields(self)]_vars

\* C9 witness: create_subgraph_body has just failed on the name of a region whose
\* buffer holds lines.
C9_Witness ==
    /\ op.name = "create_subgraph_body"
    /\ fault = "DuplicateRegionError"
    /\ op.arg \in Regions(self)
    /\ self.heap[self.subgraph_bodies[op.arg].body] # <<>>

C11_EnterSnapshotsOuter ==
    [][/\ (op'.name = "set_subgraph_body" /\ stack # <<>> /\ Len(stack') = Len(stack) + 1)
            => /\ self'.subgraph_bodies[Top.body_name] = CurrentFields(self)
               /\ (op'.arg = Top.body_name => CurrentFields(self') = CurrentFields(self))
       /\ \A i \in 2..Len(stack') :
            self'.subgraph_bodies[stack'[i - 1].body_name] = SwappedBefore(stack'[i])]_vars


\* C12 (region isolation): after every step, distinct region names have distinct
\* buffers and none of them is the main buffer; the buffer a line is written to
\* is the buffer of the region whose scope is innermost (the main buffer when no
\* scope is open); a step changes the text of no existing buffer except that
\* active one, and the lines store_output and def_kernel write are in the buffer
\* of their own region.
C12_RegionIsolation ==
    [][/\ \A n1, n2 \in Regions(self') :
            /\ self'.subgraph_bodies[n1].body # MainBuffer
            /\ self'.subgraph_bodies[n1].body \in DOMAIN self'.heap
            /\ (n1 # n2 => self'.subgraph_bodies[n1].body # self'.subgraph_bodies[n2].body)
       /\ self'.body = IF stack' = <<>> THEN MainBuffer
                       ELSE self'.subgraph_bodies[stack'[Len(stack')].body_name].body
       /\ \A b \in DOMAIN self.heap :
            /\ b \in DOMAIN self'.heap
            /\ (self'.heap[b] # self.heap[b] => (b = self.body /\ op'.name = "writeline"))
       /\ (op'.name = "writeline" /\ stack # <<>>) =>
            /\ self'.heap[self.subgraph_bodies[Top.body_name].body] # self.heap[self.subgraph_bodies[Top.body_name].body]
            /\ self'.heap[MainBuffer] = self.heap[MainBuffer]
       /\ (op'.name = "store_output" /\ fault' = "none") =>
            /\ self'.heap[self'.subgraph_bodies[STORE_OUTPUT].body] # <<>>
            /\ STORE_OUTPUT \notin Regions(self)
       /\ (op'.name = "def_kernel" /\ fault' = "none") =>
            /\ self'.heap[self'.subgraph_bodies[DEF_KERNEL].body] # <<>>
            /\ DEF_KERNEL \notin Regions(self)]_vars

\* a line was written inside a region's scope while another region and the main
\* buffer exist and are empty
C12_Witness ==
    /\ op.name = "writeline"
    /\ stack # <<>>
    /\ self.heap[self.body] # <<>>
    /\ self.heap[MainBuffer] = <<>>
    /\ \E n \in Regions(self) : n # Top.body_name /\ self.heap[self.subgraph_bodies[n].body] = <<>>


\* how many of the names def_kernel(argnames) pairs with input nodes
Paired(k, argnames) == Min(Len(argnames), Len(k.input_nodes))

\* what def_kernel(argnames) does to the output mapping: the default symbol for
\* the output buffer when there is one, no output binding otherwise
OutputBound(k0, k1) ==
    IF k0.output_node # None
    THEN /\ k0.output_node[1] \in DOMAIN k1.output_buffers
         /\ k1.output_buffers[k0.output_node[1]] = "output"
    ELSE k1.output_buffers = EmptyMap

\* C13 as stated (binding by position): after def_kernel(n1..nk) on inputs b1..bm
\* the input mapping gives ni for bi, for every i up to min(k, m); the output
\* buffer has the default symbol when present and there is no output binding
\* when it is absent.
C13_BindsByPosition ==
    [][\A argnames \in WideArgNameLists :
         def_kernel(argnames) =>
            /\ \A i \in 1..Paired(self, argnames) :
                 /\ self.input_nodes[i] \in DOMAIN self'.input_buffers
                 /\ self'.input_buffers[self.input_nodes[i]] = argnames[i]
            /\ OutputBound(self, self')]_vars

\* the last of the paired positions at which buffer b is listed
LastPosition(k, argnames, b) ==
    CHOOSE j \in 1..Paired(k, argnames) :
        /\ k.input_nodes[j] = b
        /\ \A i \in 1..Paired(k, argnames) : k.input_nodes[i] = b => i <= j

\* C13 amended (binding in order): after def_kernel(n1..nk) every input buffer
\* among the first min(k, m) has the name of the last position at which it is
\* listed (ni for a buffer listed once at i), every other input binding is as
\* before, the output buffer has the default symbol when present and there is no
\* output binding when it is absent; this holds whether or not the call goes on
\* to fail.
C13_BindsInOrder ==
    [][\A argnames \in WideArgNameLists :
         def_kernel(argnames) =>
            /\ \A i \in 1..Paired(self, argnames) :
                 /\ self.input_nodes[i] \in DOMAIN self'.input_buffers
                 /\ self'.input_buffers[self.input_nodes[i]] =
                        argnames[LastPosition(self, argnames, self.input_nodes[i])]
            /\ \A b \in DOMAIN self'.input_buffers :
                 (\A i \in 1..Paired(self, argnames) : self.input_nodes[i] # b)
                    => (b \in DOMAIN self.input_buffers
                        /\ self'.input_buffers[b] = self.input_buffers[b])
            /\ OutputBound(self, self')]_vars

\* def_kernel("x", "y") has bound the one buffer of a kernel whose inputs list it
\* twice, and the output
C13_Witness ==
    /\ op.name = "def_kernel"
    /\ fault = "none"
    /\ self.input_nodes = <<"a", "a">>
    /\ self.input_buffers = [b \in {"a"} |-> "y"]
    /\ self.output_buffers = [b \in {"c"} |-> "output"]


\* the symbols of a table are unique: distinct buffers have distinct symbols
Injective(table) ==
    \A b1, b2 \in DOMAIN table : b1 # b2 => table[b1] # table[b2]

\* C14 (symbols unique per table): in every reachable state no two input buffers
\* have the same symbol and no two output buffers have the same symbol.
C14_SymbolsUnique ==
    /\ Injective(self.input_buffers)
    /\ Injective(self.output_buffers)


RECURSIVE PassOneText(_)
\* the text of a template with each call replaced by the token the call returns
PassOneText(template) ==
    IF template = <<>> THEN <<>>
    ELSE LET item == Head(template)
         IN  (IF item.kind = "def_kernel" THEN <<DEF_KERNEL>>
              ELSE IF item.kind = "store_output" THEN <<STORE_OUTPUT>>
              ELSE item.text) \o PassOneText(Tail(template))

\* the tokens of the calls a template makes
CalledTokens(template) ==
    {IF template[i].kind = "def_kernel" THEN DEF_KERNEL ELSE STORE_OUTPUT :
        i \in {j \in 1..Len(template) : template[j].kind # "text"}}

RECURSIVE AfterCalls(_, _)
\* the kernel after the def_kernel and store_output calls of a template are made
\* one by one, up to and including the first that raises
AfterCalls(k, template) ==
    IF template = <<>> THEN k
    ELSE LET item == Head(template)
         IN  IF item.kind = "text" THEN AfterCalls(k, Tail(template))
             ELSE LET r == IF item.kind = "def_kernel" THEN DefKernel(k, item.argnames)
                           ELSE StoreOutput(k, item.indices, item.val, item.mask)
                  IN  IF r.fault # "none" THEN r.k ELSE AfterCalls(r.k, Tail(template))

\* C16 (render is pass 1 only): a render that returns gives back the template's
\* text with the tokens of its calls in place, unresolved; the kernel after
\* render is the kernel after the calls the template makes and nothing else: a
\* template without calls leaves it unchanged, hooks and regions are added only
\* for the tokens the template calls, and the argument table changes only when
\* the template calls def_kernel.
C16_RenderPassOneOnly ==
    [][\A template \in Templates :
         (op'.name = "render" /\ render(template)) =>
            /\ fault' = "none" => op'.text = PassOneText(template)
            /\ self' = AfterCalls(self, template)
            /\ CalledTokens(template) = {} => (self' = self /\ fault' = "none")
            /\ Hooks(self') \ Hooks(self) \subseteq CalledTokens(template)
            /\ Regions(self') \ Regions(self) \subseteq CalledTokens(template)
            /\ \A n \in Regions(self) :
                 n \in Regions(self') /\ self'.subgraph_bodies[n] = self.subgraph_bodies[n]
            /\ Hooks(self) \subseteq Hooks(self')
            /\ DEF_KERNEL \notin CalledTokens(template) =>
                 /\ self'.input_buffers = self.input_buffers
                 /\ self'.output_buffers = self.output_buffers]_vars

\* render has returned a text that holds both tokens, and both hooks are registered
C16_Witness ==
    /\ op.name = "render"
    /\ fault = "none"
    /\ Contains(op.text, <<DEF_KERNEL>>)
    /\ Contains(op.text, <<STORE_OUTPUT>>)
    /\ Hooks(self) = {DEF_KERNEL, STORE_OUTPUT}


\* C17 (failure atomicity): a def_kernel or store_output call that fails because
\* an earlier call of the same operation has succeeded leaves the whole kernel as
\* it was: regions, hooks, both argument mappings, named_input_nodes and the
\* active fields with template_indices.
C17_FailureAtomic ==
    [][/\ (op'.name = "def_kernel" /\ DEF_KERNEL \in Hooks(self) /\ fault' # "none")
            => self' = self
       /\ (op'.name = "store_output" /\ STORE_OUTPUT \in Hooks(self) /\ fault' # "none")
            => self' = self]_vars


\* C18 (a hook implies its region): after every step each token that has a hook
\* names a stored region; no step removes a region or a hook or registers a hook
\* again; a def_kernel or store_output call on a kernel that has the token's hook
\* fails the duplicate-region check, and the duplicate-hook assertion never fails.
C18_HookImpliesRegion ==
    [][/\ Hooks(self') \subseteq Regions(self')
       /\ Regions(self) \subseteq Regions(self')
       /\ Hooks(self) \subseteq Hooks(self')
       /\ \A token \in Hooks(self') \ Hooks(self) :
            /\ token \notin Regions(self)
            /\ op'.name \in {"def_kernel", "store_output", "render"}
       /\ fault' # "DuplicateHookError"
       /\ (op'.name = "def_kernel" /\ DEF_KERNEL \in Hooks(self))
            => fault' = "DuplicateRegionError"
       /\ (op'.name = "store_output" /\ STORE_OUTPUT \in Hooks(self))
            => fault' = "DuplicateRegionError"]_vars

\* a second store_output, inside a scope, has failed the duplicate-region check
\* on a kernel that has both hooks
C18_Witness ==
    /\ op.name = "store_output"
    /\ fault = "DuplicateRegionError"
    /\ stack # <<>>
    /\ Hooks(self) = {DEF_KERNEL, STORE_OUTPUT}


\* C19 (permanent lock-out): once the <STORE_OUTPUT> region is stored, however
\* it came to be stored, every store_output call fails the duplicate-region
\* check and registers nothing, and if the token has no hook then no step of any
\* operation gives it one; the same for def_kernel and <DEF_KERNEL>.
C19_PermanentLockOut ==
    [][/\ (op'.name = "store_output" /\ STORE_OUTPUT \in Regions(self))
            => (fault' = "DuplicateRegionError" /\ Hooks(self') = Hooks(self))
       /\ (op'.name = "def_kernel" /\ DEF_KERNEL \in Regions(self))
            => (fault' = "DuplicateRegionError" /\ Hooks(self') = Hooks(self))
       /\ \A token \in {STORE_OUTPUT, DEF_KERNEL} :
            (token \in Regions(self) /\ token \notin Hooks(self))
                => (token \in Regions(self') /\ token \notin Hooks(self'))]_vars

\* a store_output call raised inside its scope and left its region without a
\* hook; a later store_output call has failed the duplicate-region check
C19_Witness ==
    /\ STORE_OUTPUT \in Regions(self)
    /\ STORE_OUTPUT \notin Hooks(self)
    /\ self.subgraph_bodies[STORE_OUTPUT].template_out = Some("v")
    /\ op.name = "store_output"
    /\ fault = "DuplicateRegionError"

====
